---- MODULE Spec2Model ----
(***************************************************************************)
(* Model of SubmitterService (src/src/submitter/submitter.service.ts):     *)
(* the resolution of the layered submitter configuration and the           *)
(* supervision of one worker thread per chain.                             *)
(***************************************************************************)
EXTENDS Integers, Sequences, FiniteSets, Bags, TLC

VARIABLES
    relayerConfig,          \* configService.relayerConfig: privateKey, submitter
    chainsConfig,           \* configService.chainsConfig, in configuration order
    ambsConfig,             \* configService.ambsConfig, in registration order
    heap,                   \* the gasLimitBuffer objects, by reference
    heap0,                  \* the heap as the configuration was loaded (history)
    pc,                     \* position of onModuleInit
    globalSubmitterConfig,  \* local of onModuleInit
    i,                      \* position of the for..of loop over chainsConfig
    workerData,             \* local of the loop body
    worker,                 \* local of the loop body: the thread just created
    threads,                \* every Worker ever constructed, in creation order
    workers,                \* this.workers: chainId -> thread
    log,                    \* what loggerService received (a bag of messages)
    calls                   \* loadWorkerConfig invocations so far (history)

vars == <<relayerConfig, chainsConfig, ambsConfig, heap, heap0, pc,
          globalSubmitterConfig, i, workerData, worker, threads, workers,
          log, calls>>

(***************************************************************************)
(* Bounds of the model.                                                    *)
(***************************************************************************)
NumChains == 3      \* chains configured in the supervision model
ConfigChains == 2   \* chains configured in the resolution model
MaxAmbs == 2        \* adapters registered at most

(***************************************************************************)
(* JavaScript values: <<type, payload>>.  A string is named by a code (0   *)
(* is the empty string), an object by the reference of its record on the   *)
(* heap.                                                                   *)
(***************************************************************************)
Undefined == <<"undefined", 0>>
Null == <<"null", 0>>
Num(n) == <<"number", n>>
Bool(b) == <<"boolean", IF b THEN 1 ELSE 0>>
Str(code) == <<"string", code>>
Obj(ref) == <<"object", ref>>

IsNullish(v) == v[1] \in {"undefined", "null"}

\* ToBoolean: what `!x` negates
Truthy(v) ==
    CASE v[1] \in {"undefined", "null"} -> FALSE
      [] v[1] \in {"number", "boolean", "string"} -> v[2] # 0
      [] OTHER -> TRUE

\* slips: a || b in the place of a ?? b, and the operands exchanged
LogicalOr(a, b) == IF Truthy(a) THEN a ELSE b
CoalesceExchanged(a, b) == IF IsNullish(b) THEN a ELSE b

\* a ?? b
Coalesce(a, b) == IF IsNullish(a) THEN b ELSE a

(***************************************************************************)
(* Objects used as string-keyed records of numbers.                        *)
(***************************************************************************)
EmptyObject == [k \in {} |-> 0]

SetKey(o, key, value) ==
    [k \in DOMAIN o \cup {key} |-> IF k = key THEN value ELSE o[k]]

\* for (const key in source) target[key] = source[key];
CopyKeys(target, source) ==
    [k \in DOMAIN target \cup DOMAIN source |->
        IF k \in DOMAIN source THEN source[k] ELSE target[k]]

(***************************************************************************)
(* Program constants.                                                      *)
(***************************************************************************)
RETRY_INTERVAL_DEFAULT == 2000
PROCESSING_INTERVAL_DEFAULT == 100
MAX_TRIES_DEFAULT == 3
MAX_PENDING_TRANSACTIONS == 1000
NEW_ORDERS_DELAY_DEFAULT == 0
TRANSACTION_TIMEOUT_DEFAULT == 10 * 60000

\* a slip: the "default" entry written whether or not one was provided
ensureDefaultAlways(gasLimitBuffer) == SetKey(gasLimitBuffer, "default", 0)

\* if (!('default' in gasLimitBuffer)) gasLimitBuffer['default'] = 0;
ensureDefault(gasLimitBuffer) ==
    IF "default" \in DOMAIN gasLimitBuffer
    THEN gasLimitBuffer
    ELSE SetKey(gasLimitBuffer, "default", 0)

(***************************************************************************)
(* loadGlobalSubmitterConfig.  `submitterConfig.gasLimitBuffer ?? {}`: the *)
(* provided object is used as it is (no copy), a new one is made only when *)
(* it is missing; the "default" key is then written into it in place.      *)
(***************************************************************************)
loadGlobalSubmitterConfig(h, submitterConfig) ==
    LET provided == submitterConfig.gasLimitBuffer
        h1 == IF IsNullish(provided) THEN Append(h, EmptyObject) ELSE h
        ref == IF IsNullish(provided) THEN Len(h1) ELSE provided[2]
        h2 == [h1 EXCEPT ![ref] = ensureDefault(@)]
    IN  [heap |-> h2,
         config |->
            [enabled |-> Coalesce(submitterConfig.enabled, Bool(TRUE)),
             newOrdersDelay |->
                Coalesce(submitterConfig.newOrdersDelay,
                         Num(NEW_ORDERS_DELAY_DEFAULT)),
             retryInterval |->
                Coalesce(submitterConfig.retryInterval,
                         Num(RETRY_INTERVAL_DEFAULT)),
             processingInterval |->
                Coalesce(submitterConfig.processingInterval,
                         Num(PROCESSING_INTERVAL_DEFAULT)),
             maxTries |->
                Coalesce(submitterConfig.maxTries, Num(MAX_TRIES_DEFAULT)),
             maxPendingTransactions |->
                Coalesce(submitterConfig.maxPendingTransactions,
                         Num(MAX_PENDING_TRANSACTIONS)),
             transactionTimeout |->
                Coalesce(submitterConfig.transactionTimeout,
                         Num(TRANSACTION_TIMEOUT_DEFAULT)),
             gasLimitBuffer |-> Obj(ref)]]

\* slips: the defaults never copied; the overrides written into the
\* object of the defaults, no new object made
getChainGasLimitBufferConfigOverridesOnly(h, defaultGasLimitBufferConfig, chainGasLimitBufferConfig) ==
    LET h1 == Append(h, CopyKeys(EmptyObject,
                                 h[chainGasLimitBufferConfig[2]]))
    IN  [heap |-> h1, value |-> Obj(Len(h1))]

getChainGasLimitBufferConfigShared(h, defaultGasLimitBufferConfig, chainGasLimitBufferConfig) ==
    [heap |-> [h EXCEPT ![defaultGasLimitBufferConfig[2]] =
                    CopyKeys(@, h[chainGasLimitBufferConfig[2]])],
     value |-> defaultGasLimitBufferConfig]

(***************************************************************************)
(* getChainGasLimitBufferConfig: a new object, the defaults copied into    *)
(* it, then the chain overrides.                                           *)
(***************************************************************************)
getChainGasLimitBufferConfig(h, defaultGasLimitBufferConfig, chainGasLimitBufferConfig) ==
    LET gasLimitBuffers == EmptyObject
        withDefaults == CopyKeys(gasLimitBuffers,
                                 h[defaultGasLimitBufferConfig[2]])
        withOverrides == CopyKeys(withDefaults,
                                  h[chainGasLimitBufferConfig[2]])
        h1 == Append(h, withOverrides)
    IN  [heap |-> h1, value |-> Obj(Len(h1))]

(***************************************************************************)
(* A Map<string, V> as the sequence of its entries in insertion order.     *)
(***************************************************************************)
MapHas(m, key) == \E k \in 1..Len(m) : m[k][1] = key

MapSet(m, key, value) ==
    IF MapHas(m, key)
    THEN [k \in 1..Len(m) |-> IF m[k][1] = key THEN <<key, value>> ELSE m[k]]
    ELSE Append(m, <<key, value>>)

(***************************************************************************)
(* An adapter: its name and what getIncentivesAddress gives per chain id   *)
(* (an address, or Throws when the lookup raises).                         *)
(***************************************************************************)
Throws == <<"throw", 0>>

\* a slip: the lookup made for the first chain id the adapter knows
getIncentivesAddressOfFirst(amb, chainId) ==
    amb.addresses[CHOOSE c \in DOMAIN amb.addresses :
                    \A d \in DOMAIN amb.addresses : c <= d]

getIncentivesAddress(amb, chainId) == amb.addresses[chainId]

\* ambsConfig.forEach((amb) => incentivesAddresses.set(amb.name, ...))
RECURSIVE forEachAmb(_, _, _)
forEachAmb(k, chainId, incentivesAddresses) ==
    IF k > Len(ambsConfig)
    THEN incentivesAddresses
    ELSE forEachAmb(k + 1, chainId,
            MapSet(incentivesAddresses, ambsConfig[k].name,
                   getIncentivesAddress(ambsConfig[k], chainId)))

(***************************************************************************)
(* loadWorkerConfig.  A lookup that raises ends the call before anything   *)
(* else is built.                                                          *)
(***************************************************************************)
loadWorkerConfig(h, chainConfig, globalConfig) ==
    LET chainId == chainConfig.chainId
        threw == \E k \in 1..Len(ambsConfig) :
                    getIncentivesAddress(ambsConfig[k], chainId) = Throws
        incentivesAddresses == forEachAmb(1, chainId, << >>)
        override == chainConfig.submitter.gasLimitBuffer
        h1 == IF IsNullish(override) THEN Append(h, EmptyObject) ELSE h
        chainGas == IF IsNullish(override) THEN Obj(Len(h1)) ELSE override
        merged == getChainGasLimitBufferConfig(h1,
                      globalConfig.gasLimitBuffer, chainGas)
    IN  IF threw
        THEN [threw |-> TRUE, heap |-> h, chainId |-> chainId]
        ELSE [threw |-> FALSE, heap |-> merged.heap, chainId |-> chainId,
              value |->
                [chainId |-> chainId,
                 rpc |-> chainConfig.rpc,
                 relayerPrivateKey |-> relayerConfig.privateKey,
                 incentivesAddresses |-> incentivesAddresses,
                 newOrdersDelay |->
                    Coalesce(chainConfig.submitter.newOrdersDelay,
                             globalConfig.newOrdersDelay),
                 retryInterval |->
                    Coalesce(chainConfig.submitter.retryInterval,
                             globalConfig.retryInterval),
                 processingInterval |->
                    Coalesce(chainConfig.submitter.processingInterval,
                             globalConfig.processingInterval),
                 maxTries |->
                    Coalesce(chainConfig.submitter.maxTries,
                             globalConfig.maxTries),
                 maxPendingTransactions |->
                    Coalesce(chainConfig.submitter.maxPendingTransactions,
                             globalConfig.maxPendingTransactions),
                 transactionTimeout |->
                    Coalesce(chainConfig.submitter.transactionTimeout,
                             globalConfig.transactionTimeout),
                 gasLimitBuffer |-> merged.value,
                 maxFeePerGas |-> chainConfig.submitter.maxFeePerGas,
                 maxPriorityFeeAdjustmentFactor |->
                    chainConfig.submitter.maxPriorityFeeAdjustmentFactor,
                 maxAllowedPriorityFeePerGas |->
                    chainConfig.submitter.maxAllowedPriorityFeePerGas,
                 gasPriceAdjustmentFactor |->
                    chainConfig.submitter.gasPriceAdjustmentFactor,
                 maxAllowedGasPrice |->
                    chainConfig.submitter.maxAllowedGasPrice,
                 loggerOptions |-> "loggerOptions"]]

(***************************************************************************)
(* The configurations the model is run on.                                 *)
(***************************************************************************)
ScalarFields ==
    {"newOrdersDelay", "retryInterval", "processingInterval", "maxTries",
     "maxPendingTransactions", "transactionTimeout"}

GasKeys == {"default", "erc20", "nft"}

AmbNames == <<"mock", "wormhole", "layerzero", "polymer">>

\* the chain id of the chain configured at position k
ChainIdAt(k) == 10 * k

\* the address adapter a reports for a chain id
AddressOf(a, chainId) == Str(1000 * a + chainId)

Unset == [f \in ScalarFields |-> Undefined]

\* an optional gasLimitBuffer: absent, null, or an object with these keys
NoObject(kind) == [kind |-> kind, keys |-> EmptyObject]
AnObject(keys) == [kind |-> "object", keys |-> keys]

ObjectsOver(values) ==
    UNION {[S -> values] : S \in SUBSET GasKeys}

\* the submitter section of the relayer configuration
SubmitterSection(enabled, scalars, gas, ref) ==
    [enabled |-> enabled,
     newOrdersDelay |-> scalars.newOrdersDelay,
     retryInterval |-> scalars.retryInterval,
     processingInterval |-> scalars.processingInterval,
     maxTries |-> scalars.maxTries,
     maxPendingTransactions |-> scalars.maxPendingTransactions,
     transactionTimeout |-> scalars.transactionTimeout,
     gasLimitBuffer |->
        IF gas.kind = "object" THEN Obj(ref) ELSE <<gas.kind, 0>>]

\* the chain configured at position k
ChainConfig(k, scalars, gas, ref) ==
    [chainId |-> ChainIdAt(k),
     rpc |-> Str(500 + k),
     submitter |->
        [newOrdersDelay |-> scalars.newOrdersDelay,
         retryInterval |-> scalars.retryInterval,
         processingInterval |-> scalars.processingInterval,
         maxTries |-> scalars.maxTries,
         maxPendingTransactions |-> scalars.maxPendingTransactions,
         transactionTimeout |-> scalars.transactionTimeout,
         gasLimitBuffer |->
            IF gas.kind = "object" THEN Obj(ref) ELSE <<gas.kind, 0>>,
         maxFeePerGas |-> IF k % 2 = 1 THEN Num(200 + k) ELSE Undefined,
         maxPriorityFeeAdjustmentFactor |-> Undefined,
         maxAllowedPriorityFeePerGas |-> Undefined,
         gasPriceAdjustmentFactor |-> Undefined,
         maxAllowedGasPrice |->
            IF k % 2 = 0 THEN Num(300 + k) ELSE Undefined]]

\* adapter a, whose lookup raises for the chain ids in failing
Amb(a, chainIds, failing) ==
    [name |-> AmbNames[a],
     addresses |-> [c \in chainIds |->
                      IF c \in failing THEN Throws ELSE AddressOf(a, c)]]

\* the ordered collections of at most MaxAmbs distinct adapters
AmbOrders ==
    {s \in UNION {[1..n -> 1..Len(AmbNames)] : n \in 0..MaxAmbs} :
        \A x, y \in 1..Len(s) : x # y => s[x] # s[y]}

\* a whole configuration: the global section, n chains, the adapters
Configuration(enabled, gScalars, gGas, cScalars, cGas, order, failing) ==
    LET n == Len(cScalars)
        ids == {ChainIdAt(k) : k \in 1..n}
    IN  [relayerConfig |->
            [privateKey |-> Str(900),
             submitter |-> SubmitterSection(enabled, gScalars, gGas, 1)],
         chainsConfig |->
            [k \in 1..n |-> ChainConfig(k, cScalars[k], cGas[k], k + 1)],
         ambsConfig |->
            [x \in 1..Len(order) |-> Amb(order[x], ids, failing[x])],
         heap |-> <<gGas.keys>> \o [k \in 1..n |-> cGas[k].keys]]

(***************************************************************************)
(* The resolution model: the two resolvers applied to a configuration,     *)
(* the chains in configuration order.                                      *)
(***************************************************************************)
GlobalScalarValues == {Undefined, Num(7)}
ChainScalarValues == {Undefined, Num(5)}
NullishScalarValues == {Undefined, Null, Num(0), Num(5)}
GlobalGasValues == {0, 5}

GlobalGasInputs ==
    {NoObject("undefined"), NoObject("null")}
        \cup {AnObject(o) : o \in ObjectsOver(GlobalGasValues)}

\* a chain's gasLimitBuffer override: none, or an object with these keys
ChainGasChoices ==
    {[kind |-> "undefined", over |-> {}]}
        \cup {[kind |-> "object", over |-> S] : S \in SUBSET GasKeys}

\* the values the chain at position k gives them
ChainGas(k, choice) ==
    [kind |-> choice.kind,
     keys |-> [key \in choice.over |->
                 IF key = "erc20" THEN 10 * k ELSE 3 * k]]

NoOverrides(n) == [k \in 1..n |-> Unset]
NoGas(n) == [k \in 1..n |-> NoObject("undefined")]
OneAmb == <<1>>
NoFailure == <<{}>>

\* every field set or not, globally and on the first chain
ScalarConfiguration(g, c) ==
    Configuration(Undefined, g, NoObject("undefined"),
                  [k \in 1..ConfigChains |-> IF k = 1 THEN c ELSE Unset],
                  NoGas(ConfigChains), OneAmb, NoFailure)

\* one field absent, null, 0 or set at either level, on every chain
NullishConfiguration(f, g, c) ==
    Configuration(Undefined,
                  [x \in ScalarFields |-> IF x = f THEN g ELSE Num(7)],
                  NoObject("undefined"),
                  [k \in 1..ConfigChains |->
                       [x \in ScalarFields |-> IF x = f THEN c ELSE Undefined]],
                  NoGas(ConfigChains), OneAmb, NoFailure)

\* every gasLimitBuffer object, globally and on every chain
GasConfiguration(g, c) ==
    Configuration(Undefined, Unset, g, NoOverrides(ConfigChains),
                  [k \in 1..ConfigChains |-> ChainGas(k, c[k])],
                  OneAmb, NoFailure)

\* every ordered collection of adapters, each lookup raising or not
AmbConfiguration(order, failing) ==
    Configuration(Undefined, Unset, NoObject("undefined"),
                  NoOverrides(ConfigChains), NoGas(ConfigChains),
                  order, failing)

Configure(cfg) ==
    /\ relayerConfig = cfg.relayerConfig
    /\ chainsConfig = cfg.chainsConfig
    /\ ambsConfig = cfg.ambsConfig
    /\ heap = cfg.heap
    /\ heap0 = cfg.heap
    /\ globalSubmitterConfig = Undefined
    /\ i = 0
    /\ workerData = Undefined
    /\ worker = 0
    /\ threads = << >>
    /\ workers = << >>
    /\ log = EmptyBag
    /\ calls = << >>

InitConfig ==
    /\ pc = "config"
    /\ \/ \E g \in [ScalarFields -> GlobalScalarValues],
             c \in [ScalarFields -> ChainScalarValues] :
                Configure(ScalarConfiguration(g, c))
       \/ \E f \in ScalarFields, g \in NullishScalarValues,
             c \in NullishScalarValues :
                Configure(NullishConfiguration(f, g, c))
       \/ \E g \in GlobalGasInputs,
             c \in [1..ConfigChains -> ChainGasChoices] :
                Configure(GasConfiguration(g, c))
       \/ \E order \in AmbOrders :
            \E failing \in [1..Len(order) ->
                             SUBSET {ChainIdAt(k) : k \in 1..ConfigChains}] :
                Configure(AmbConfiguration(order, failing))

\* what a loadWorkerConfig invocation came to
Outcome(r) ==
    IF r.threw
    THEN [chainId |-> r.chainId, threw |-> TRUE]
    ELSE [chainId |-> r.chainId, threw |-> FALSE, value |-> r.value]

ResolveGlobal ==
    /\ pc = "config"
    /\ LET r == loadGlobalSubmitterConfig(heap, relayerConfig.submitter)
       IN  /\ globalSubmitterConfig' = r.config
           /\ heap' = r.heap
    /\ pc' = "chains"
    /\ i' = 1
    /\ UNCHANGED <<relayerConfig, chainsConfig, ambsConfig, heap0, workerData,
                   worker, threads, workers, log, calls>>

ResolveWorker ==
    /\ pc = "chains"
    /\ i <= Len(chainsConfig)
    /\ LET r == loadWorkerConfig(heap, chainsConfig[i], globalSubmitterConfig)
       IN  /\ calls' = Append(calls, Outcome(r))
           /\ heap' = r.heap
           /\ workerData' = IF r.threw THEN workerData ELSE r.value
    /\ i' = i + 1
    /\ UNCHANGED <<relayerConfig, chainsConfig, ambsConfig, heap0, pc,
                   globalSubmitterConfig, worker, threads, workers, log>>

NextConfig == ResolveGlobal \/ ResolveWorker

SpecConfig == InitConfig /\ [][NextConfig]_vars

(***************************************************************************)
(* The supervision model: onModuleInit, then the events of the workers it  *)
(* started.  onModuleInit has no await: it runs to its end (or to the      *)
(* exception that ends it) before any worker event is delivered.           *)
(***************************************************************************)
EnabledValues ==
    {Undefined, Null, Bool(TRUE), Bool(FALSE), Num(0), Num(1), Str(0), Str(1)}

ExitCodes == {0, 1}

AllAmbs == [x \in 1..MaxAmbs |-> MaxAmbs + 1 - x]

\* the chains each adapter has no address for: failing[x] for adapter x
SupervisedConfiguration(enabled, failing) ==
    Configuration(enabled,
                  [Unset EXCEPT !.maxTries = Num(7)],
                  AnObject([key \in {"erc20"} |-> 5]),
                  [k \in 1..NumChains |->
                       IF k % 2 = 1
                       THEN [Unset EXCEPT !.retryInterval = Num(k)]
                       ELSE Unset],
                  [k \in 1..NumChains |->
                       IF k % 2 = 0
                       THEN AnObject([key \in {"erc20", "nft"} |-> 10 * k])
                       ELSE NoObject("undefined")],
                  AllAmbs, failing)

Init ==
    /\ pc = "init"
    /\ \E enabled \in EnabledValues,
          failing \in [1..MaxAmbs ->
                         SUBSET {ChainIdAt(k) : k \in 1..NumChains}] :
            Configure(SupervisedConfiguration(enabled, failing))

Message(level, text, chainId, thread, detail) ==
    [level |-> level, text |-> text, chainId |-> chainId, thread |-> thread,
     detail |-> detail]

Logged(message) == log (+) SetToBag({message})

\* the messages the listeners of one event of thread t write
RECURSIVE Emit(_, _, _, _)
Emit(listeners, text, t, detail) ==
    IF listeners = << >>
    THEN EmptyBag
    ELSE SetToBag({Message("fatal", text, Head(listeners), t, detail)})
            (+) Emit(Tail(listeners), text, t, detail)

\* new Worker(file, {workerData}): the thread receives a copy of the data
StructuredClone(h, data) ==
    [data EXCEPT !.gasLimitBuffer = h[data.gasLimitBuffer[2]]]

\* lines 56-58
OnModuleInit ==
    /\ pc = "init"
    /\ log' = Logged(Message("info", "Starting the submitter on all chains...",
                             0, 0, 0))
    /\ LET r == loadGlobalSubmitterConfig(heap, relayerConfig.submitter)
       IN  /\ globalSubmitterConfig' = r.config
           /\ heap' = r.heap
    /\ pc' = "check"
    /\ UNCHANGED <<relayerConfig, chainsConfig, ambsConfig, heap0, i,
                   workerData, worker, threads, workers, calls>>

\* lines 61-64
SubmitterDisabled ==
    /\ pc = "check"
    /\ ~Truthy(globalSubmitterConfig.enabled)
    /\ log' = Logged(Message("info",
                             "Submitter has been disabled. Ending init early",
                             0, 0, 0))
    /\ pc' = "returned"
    /\ UNCHANGED <<relayerConfig, chainsConfig, ambsConfig, heap, heap0,
                   globalSubmitterConfig, i, workerData, worker, threads,
                   workers, calls>>

\* line 67, entering the loop
SubmitterEnabled ==
    /\ pc = "check"
    /\ Truthy(globalSubmitterConfig.enabled)
    /\ i' = 1
    /\ pc' = IF Len(chainsConfig) = 0 THEN "returned" ELSE "load"
    /\ UNCHANGED <<relayerConfig, chainsConfig, ambsConfig, heap, heap0,
                   globalSubmitterConfig, workerData, worker, threads,
                   workers, log, calls>>

\* lines 69-72; an exception of loadWorkerConfig is caught nowhere: it
\* leaves the loop and onModuleInit, whose promise rejects
LoadWorkerData ==
    /\ pc = "load"
    /\ LET r == loadWorkerConfig(heap, chainsConfig[i], globalSubmitterConfig)
       IN  /\ calls' = Append(calls, Outcome(r))
           /\ heap' = r.heap
           /\ workerData' = IF r.threw THEN workerData ELSE r.value
           /\ pc' = IF r.threw THEN "rejected" ELSE "create"
    /\ UNCHANGED <<relayerConfig, chainsConfig, ambsConfig, heap0,
                   globalSubmitterConfig, i, worker, threads, workers, log>>

\* a slip: the handle recorded as soon as the thread exists
CreateWorkerRecorded ==
    /\ pc = "create"
    /\ threads' = Append(threads,
                    [workerData |-> StructuredClone(heap, workerData),
                     state |-> "Running",
                     exitEmitted |-> FALSE,
                     onError |-> << >>,
                     onExit |-> << >>])
    /\ worker' = Len(threads) + 1
    /\ workers' = [c \in DOMAIN workers \cup {chainsConfig[i].chainId} |->
                     IF c = chainsConfig[i].chainId THEN Len(threads) + 1
                     ELSE workers[c]]
    /\ pc' = "onError"
    /\ UNCHANGED <<relayerConfig, chainsConfig, ambsConfig, heap, heap0,
                   globalSubmitterConfig, i, workerData, log, calls>>

\* lines 74-76
CreateWorker ==
    /\ pc = "create"
    /\ threads' = Append(threads,
                    [workerData |-> StructuredClone(heap, workerData),
                     state |-> "Running",
                     exitEmitted |-> FALSE,
                     onError |-> << >>,
                     onExit |-> << >>])
    /\ worker' = Len(threads) + 1
    /\ pc' = "onError"
    /\ UNCHANGED <<relayerConfig, chainsConfig, ambsConfig, heap, heap0,
                   globalSubmitterConfig, i, workerData, workers, log, calls>>

\* a slip: every listener reports the chain configured first
RegisterErrorObserverOfFirst ==
    /\ pc = "onError"
    /\ threads' = [threads EXCEPT ![worker].onError =
                        Append(@, chainsConfig[1].chainId)]
    /\ pc' = "onExit"
    /\ UNCHANGED <<relayerConfig, chainsConfig, ambsConfig, heap, heap0,
                   globalSubmitterConfig, i, workerData, worker, workers, log,
                   calls>>

\* lines 78-83: the listener keeps chainConfig.chainId of this iteration
RegisterErrorObserver ==
    /\ pc = "onError"
    /\ threads' = [threads EXCEPT ![worker].onError =
                        Append(@, chainsConfig[i].chainId)]
    /\ pc' = "onExit"
    /\ UNCHANGED <<relayerConfig, chainsConfig, ambsConfig, heap, heap0,
                   globalSubmitterConfig, i, workerData, worker, workers, log,
                   calls>>

\* lines 85-89
RegisterExitObserver ==
    /\ pc = "onExit"
    /\ threads' = [threads EXCEPT ![worker].onExit =
                        Append(@, chainsConfig[i].chainId)]
    /\ pc' = "set"
    /\ UNCHANGED <<relayerConfig, chainsConfig, ambsConfig, heap, heap0,
                   globalSubmitterConfig, i, workerData, worker, workers, log,
                   calls>>

\* line 91, and the loop's next turn or its end
RecordWorker ==
    /\ pc = "set"
    /\ workers' = [c \in DOMAIN workers \cup {chainsConfig[i].chainId} |->
                     IF c = chainsConfig[i].chainId THEN worker
                     ELSE workers[c]]
    /\ i' = i + 1
    /\ pc' = IF i = Len(chainsConfig) THEN "returned" ELSE "load"
    /\ UNCHANGED <<relayerConfig, chainsConfig, ambsConfig, heap, heap0,
                   globalSubmitterConfig, workerData, worker, threads, log,
                   calls>>

Settled == pc \in {"returned", "rejected"}

\* the thread t throws an uncaught exception: its 'error' event
WorkerError(t) ==
    /\ Settled
    /\ threads[t].state = "Running"
    /\ threads' = [threads EXCEPT ![t].state = "Errored"]
    /\ log' = log (+) Emit(threads[t].onError,
                           "Error on submitter worker", t, 0)
    /\ UNCHANGED <<relayerConfig, chainsConfig, ambsConfig, heap, heap0, pc,
                   globalSubmitterConfig, i, workerData, worker, workers,
                   calls>>

\* a slip: the exit listener starts a replacement and records it
WorkerExitRestarting(t, exitCode) ==
    /\ Settled
    /\ ~threads[t].exitEmitted
    /\ threads[t].state = "Running"
    /\ threads' = Append([threads EXCEPT ![t].state = "Exited",
                                         ![t].exitEmitted = TRUE],
                         [threads[t] EXCEPT !.state = "Running"])
    /\ workers' = [workers EXCEPT ![threads[t].workerData.chainId] =
                        Len(threads) + 1]
    /\ log' = log (+) Emit(threads[t].onExit,
                           "Submitter worker exited with code", t, exitCode)
    /\ UNCHANGED <<relayerConfig, chainsConfig, ambsConfig, heap, heap0, pc,
                   globalSubmitterConfig, i, workerData, worker, calls>>

\* the thread t has stopped: its 'exit' event, once, with exit code 1 after
\* an uncaught exception
WorkerExit(t, exitCode) ==
    /\ Settled
    /\ ~threads[t].exitEmitted
    /\ \/ /\ threads[t].state = "Running"
          /\ threads' = [threads EXCEPT ![t].state = "Exited",
                                        ![t].exitEmitted = TRUE]
       \/ /\ threads[t].state = "Errored"
          /\ exitCode = 1
          /\ threads' = [threads EXCEPT ![t].exitEmitted = TRUE]
    /\ log' = log (+) Emit(threads[t].onExit,
                           "Submitter worker exited with code", t, exitCode)
    /\ UNCHANGED <<relayerConfig, chainsConfig, ambsConfig, heap, heap0, pc,
                   globalSubmitterConfig, i, workerData, worker, workers,
                   calls>>

Next ==
    \/ OnModuleInit
    \/ SubmitterDisabled
    \/ SubmitterEnabled
    \/ LoadWorkerData
    \/ CreateWorker
    \/ RegisterErrorObserver
    \/ RegisterExitObserver
    \/ RecordWorker
    \/ \E t \in 1..Len(threads) : WorkerError(t)
    \/ \E t \in 1..Len(threads), exitCode \in ExitCodes : WorkerExit(t, exitCode)

Spec == Init /\ [][Next]_vars

(***************************************************************************)
(* What the properties below read.                                         *)
(***************************************************************************)
\* the position at which the chain id c is configured
PositionOf(c) == CHOOSE k \in 1..Len(chainsConfig) : chainsConfig[k].chainId = c

\* the loadWorkerConfig invocations that returned
Returned == {n \in 1..Len(calls) : ~calls[n].threw}

\* some adapter's lookup raises for the chain id c
LookupFails(c) ==
    \E x \in 1..Len(ambsConfig) : ambsConfig[x].addresses[c] = Throws

\* the documented default of a scalar field
Documented(f) ==
    CASE f = "newOrdersDelay" -> Num(0)
      [] f = "retryInterval" -> Num(2000)
      [] f = "processingInterval" -> Num(100)
      [] f = "maxTries" -> Num(3)
      [] f = "maxPendingTransactions" -> Num(1000)
      [] f = "transactionTimeout" -> Num(600000)

\* the global gasLimitBuffer as configured, and as it is to be resolved
ProvidedGlobalGas ==
    IF IsNullish(relayerConfig.submitter.gasLimitBuffer)
    THEN EmptyObject
    ELSE heap0[relayerConfig.submitter.gasLimitBuffer[2]]

ExpectedGlobalGas ==
    [key \in DOMAIN ProvidedGlobalGas \cup {"default"} |->
        IF key \in DOMAIN ProvidedGlobalGas THEN ProvidedGlobalGas[key] ELSE 0]

\* the gasLimitBuffer override of the chain at position k, as configured
ProvidedChainGas(k) ==
    IF IsNullish(chainsConfig[k].submitter.gasLimitBuffer)
    THEN EmptyObject
    ELSE heap0[chainsConfig[k].submitter.gasLimitBuffer[2]]

\* the chain at position k has no submitter override at all
NoOverride(k) ==
    /\ \A f \in ScalarFields : chainsConfig[k].submitter[f] = Undefined
    /\ chainsConfig[k].submitter.gasLimitBuffer = Undefined

C6_ScalarOverrideWins ==
    \A n \in Returned :
        LET chain == chainsConfig[PositionOf(calls[n].chainId)].submitter
        IN  \A f \in ScalarFields :
                calls[n].value[f] =
                    IF ~IsNullish(chain[f]) THEN chain[f]
                    ELSE IF ~IsNullish(relayerConfig.submitter[f])
                         THEN relayerConfig.submitter[f]
                         ELSE Documented(f)

\* an override of 0 over a configured global value
C6_Witness ==
    \E n \in Returned :
        LET chain == chainsConfig[PositionOf(calls[n].chainId)].submitter
        IN  /\ chain.retryInterval = Num(0)
            /\ relayerConfig.submitter.retryInterval = Num(5)
            /\ calls[n].value.retryInterval = Num(0)

\* no global maxTries: a chain with maxTries 5 gets 5, one without gets 3
C6_WitnessMaxTries ==
    /\ relayerConfig.submitter.maxTries = Undefined
    /\ \E n, m \in Returned :
        /\ chainsConfig[PositionOf(calls[n].chainId)].submitter.maxTries
            = Num(5)
        /\ calls[n].value.maxTries = Num(5)
        /\ chainsConfig[PositionOf(calls[m].chainId)].submitter.maxTries
            = Undefined
        /\ calls[m].value.maxTries = Num(3)

(***************************************************************************)
(* C7: the gasLimitBuffer merge.  The resolved object has the keys of the  *)
(* global and of the chain object, the chain's value where the chain has   *)
(* the key and the global one elsewhere; merging the chain object into the *)
(* result again gives the same; the result is a new object, and the        *)
(* global and the chain objects stay as they were, so that no chain's      *)
(* override shows in another chain's result.                               *)
(***************************************************************************)
C7_GasLimitBufferMerge ==
    \A n \in Returned :
        LET k == PositionOf(calls[n].chainId)
            G == ExpectedGlobalGas
            C == ProvidedChainGas(k)
            ref == calls[n].value.gasLimitBuffer[2]
            R == heap[ref]
            h == Append(heap, C)
            again == getChainGasLimitBufferConfig(h,
                        calls[n].value.gasLimitBuffer, Obj(Len(h)))
        IN  /\ DOMAIN R = DOMAIN G \cup DOMAIN C
            /\ \A key \in DOMAIN C : R[key] = C[key]
            /\ \A key \in DOMAIN G \ DOMAIN C : R[key] = G[key]
            /\ again.heap[again.value[2]] = R
            /\ ref > Len(heap0)
            /\ ref # globalSubmitterConfig.gasLimitBuffer[2]
            /\ \A m \in Returned :
                m # n => calls[m].value.gasLimitBuffer[2] # ref
            /\ heap[globalSubmitterConfig.gasLimitBuffer[2]] = G
            /\ \A j \in 1..Len(chainsConfig) : heap[j + 1] = heap0[j + 1]

\* global {default:0, erc20:5} and chain {erc20:10, nft:3}, every chain
\* resolved, the first to {default:0, erc20:10, nft:3}
C7_Witness ==
    /\ pc = "chains"
    /\ Len(calls) = Len(chainsConfig)
    /\ DOMAIN ProvidedGlobalGas = {"default", "erc20"}
    /\ ProvidedGlobalGas["default"] = 0
    /\ ProvidedGlobalGas["erc20"] = 5
    /\ DOMAIN ProvidedChainGas(1) = {"erc20", "nft"}
    /\ ProvidedChainGas(1)["erc20"] = 10
    /\ ProvidedChainGas(1)["nft"] = 3
    /\ 1 \in Returned
    /\ LET R == heap[calls[1].value.gasLimitBuffer[2]]
       IN  /\ DOMAIN R = {"default", "erc20", "nft"}
           /\ R["default"] = 0
           /\ R["erc20"] = 10
           /\ R["nft"] = 3

(***************************************************************************)
(* C8: every resolved gasLimitBuffer has the key "default".  The global    *)
(* one is the provided object with "default" -> 0 added only when the key  *)
(* is missing ({default: 0} when none is provided), and the object handed  *)
(* to every chain's worker has the key too.                                *)
(***************************************************************************)
C8_DefaultKeyPresent ==
    /\ pc # "config" =>
        LET G == heap[globalSubmitterConfig.gasLimitBuffer[2]]
        IN  /\ "default" \in DOMAIN G
            /\ DOMAIN G = DOMAIN ProvidedGlobalGas \cup {"default"}
            /\ \A key \in DOMAIN ProvidedGlobalGas : G[key] = ProvidedGlobalGas[key]
            /\ "default" \notin DOMAIN ProvidedGlobalGas => G["default"] = 0
    /\ \A n \in Returned :
        "default" \in DOMAIN heap[calls[n].value.gasLimitBuffer[2]]

\* a provided default of 5 is kept, and a chain was resolved
C8_Witness ==
    /\ pc = "chains"
    /\ "default" \in DOMAIN ProvidedGlobalGas
    /\ ProvidedGlobalGas["default"] = 5
    /\ heap[globalSubmitterConfig.gasLimitBuffer[2]]["default"] = 5
    /\ \E n \in Returned :
        /\ "default" \in DOMAIN ProvidedChainGas(PositionOf(calls[n].chainId))
        /\ heap[calls[n].value.gasLimitBuffer[2]]["default"] = 3

\* the global section omits gasLimitBuffer: the resolved one is {default: 0}
C8_WitnessOmitted ==
    /\ pc = "chains"
    /\ relayerConfig.submitter.gasLimitBuffer = Undefined
    /\ DOMAIN heap[globalSubmitterConfig.gasLimitBuffer[2]] = {"default"}
    /\ heap[globalSubmitterConfig.gasLimitBuffer[2]]["default"] = 0

(***************************************************************************)
(* C9: the incentivesAddresses resolved for a chain have one entry per     *)
(* registered adapter, in registration order, under the adapter's name,    *)
(* with what that adapter's lookup gives for this chain's id, and no       *)
(* other entry.                                                            *)
(***************************************************************************)
C9_IncentivesAddresses ==
    \A n \in Returned :
        LET m == calls[n].value.incentivesAddresses
        IN  /\ Len(m) = Len(ambsConfig)
            /\ \A x \in 1..Len(ambsConfig) :
                /\ m[x][1] = ambsConfig[x].name
                /\ m[x][2] = ambsConfig[x].addresses[calls[n].chainId]

\* two adapters, resolved for the second chain
C9_Witness ==
    \E n \in Returned :
        /\ Len(ambsConfig) = 2
        /\ calls[n].chainId = chainsConfig[2].chainId
        /\ Len(calls[n].value.incentivesAddresses) = 2
        /\ calls[n].value.incentivesAddresses[2][1] = ambsConfig[2].name

(***************************************************************************)
(* What the supervision properties read.                                   *)
(***************************************************************************)
ChainIds == {chainsConfig[k].chainId : k \in 1..Len(chainsConfig)}

\* the threads created for the chain id c
ThreadsOf(c) == {t \in 1..Len(threads) : threads[t].workerData.chainId = c}

\* the state of the worker of chain c
WorkerState(c) ==
    IF ThreadsOf(c) = {}
    THEN "NotStarted"
    ELSE threads[CHOOSE t \in ThreadsOf(c) : \A u \in ThreadsOf(c) : u <= t].state

\* the fatal messages written on the events of thread t
FatalOf(t) == {m \in BagToSet(log) : m.level = "fatal" /\ m.thread = t}

FatalCount(t) == BagCardinality([m \in FatalOf(t) |-> log[m]])

\* the setting as configured is a value (not absent, not null) and falsy
FalsySetting ==
    /\ ~IsNullish(relayerConfig.submitter.enabled)
    /\ ~Truthy(relayerConfig.submitter.enabled)

\* the submitter was started: the early return was not taken
Started == pc \in {"load", "create", "onError", "onExit", "set"}
            \/ (Settled /\ Truthy(globalSubmitterConfig.enabled))

(***************************************************************************)
(* C1: with the submitter enabled, a chain whose worker configuration      *)
(* cannot be built is skipped: onModuleInit does not fail, and every other *)
(* chain, before or after it, has a worker recorded.                       *)
(***************************************************************************)
C1_FailingChainSkipped ==
    (Settled /\ Truthy(globalSubmitterConfig.enabled)) =>
        /\ pc = "returned"
        /\ \A c \in ChainIds : ~LookupFails(c) => c \in DOMAIN workers

(***************************************************************************)
(* C2 as stated: any falsy value of submitter.enabled (null among them)    *)
(* makes onModuleInit return having resolved nothing and created nothing.  *)
(***************************************************************************)
C2_AnyFalsyValueDisables ==
    (relayerConfig.submitter.enabled # Undefined
        /\ ~Truthy(relayerConfig.submitter.enabled)) =>
        /\ pc \in {"init", "check", "returned"}
        /\ threads = << >>
        /\ DOMAIN workers = {}
        /\ calls = << >>

(***************************************************************************)
(* C2 as amended: a falsy value other than null (false, 0, "") makes       *)
(* onModuleInit resolve no chain configuration, create no worker, record   *)
(* no handle and return normally, whatever the chains and adapters are.    *)
(***************************************************************************)
C2_FalsyValueDisables ==
    FalsySetting =>
        /\ pc \in {"init", "check", "returned"}
        /\ threads = << >>
        /\ DOMAIN workers = {}
        /\ calls = << >>

\* disabled by 0, returned, with a chain whose lookups would all succeed
C2_Witness ==
    /\ relayerConfig.submitter.enabled = Num(0)
    /\ pc = "returned"
    /\ \E c \in ChainIds : ~LookupFails(c)
    /\ threads = << >>

(***************************************************************************)
(* C3 as stated: a terminated worker (Errored or Exited) has produced      *)
(* exactly one fatal message, naming its chain id.                         *)
(***************************************************************************)
C3_ExactlyOneFatalLog ==
    \A t \in 1..Len(threads) :
        threads[t].state # "Running" =>
            /\ FatalCount(t) = 1
            /\ \A m \in FatalOf(t) : m.chainId = threads[t].workerData.chainId

(***************************************************************************)
(* C3 as amended: every termination event of a worker writes exactly one   *)
(* fatal message, naming the worker's own chain id: one for the 'error'    *)
(* event of an uncaught fault and one for the 'exit' event, which also     *)
(* follows an uncaught fault (two messages for an Errored worker once it   *)
(* has stopped, one for an Exited worker).  An event of one worker leaves  *)
(* every other worker as it was.                                           *)
(***************************************************************************)
FatalLogsMatchEvents ==
    \A t \in 1..Len(threads) :
        /\ FatalCount(t) = (IF threads[t].state = "Errored" THEN 1 ELSE 0)
                            + (IF threads[t].exitEmitted THEN 1 ELSE 0)
        /\ threads[t].state = "Exited" => threads[t].exitEmitted
        /\ \A m \in FatalOf(t) : m.chainId = threads[t].workerData.chainId

Isolated ==
    \A t \in 1..Len(threads) :
        (threads[t].state = "Running" /\ threads'[t].state # "Running")
            => \A u \in 1..Len(threads) : u # t => threads'[u] = threads[u]

C3_OneFatalLogPerEvent == [][FatalLogsMatchEvents' /\ Isolated]_vars

\* one worker Errored and stopped, one Exited, one still Running
C3_Witness ==
    \E t, u, v \in 1..Len(threads) :
        /\ threads[t].state = "Errored" /\ threads[t].exitEmitted
        /\ FatalCount(t) = 2
        /\ threads[u].state = "Exited"
        /\ FatalCount(u) = 1
        /\ threads[v].state = "Running"
        /\ FatalCount(v) = 0

(***************************************************************************)
(* C4: the worker of a chain only goes NotStarted -> Running -> Errored or *)
(* Exited.  Once it has terminated its state, the threads created for its  *)
(* chain id and the registry entry of the chain stay as they are; no chain *)
(* id ever has more than one thread.                                       *)
(***************************************************************************)
Terminal(c) == WorkerState(c) \in {"Errored", "Exited"}

C4_Lifecycle ==
    [][\A c \in ChainIds :
        /\ \/ WorkerState(c)' = WorkerState(c)
           \/ WorkerState(c) = "NotStarted" /\ WorkerState(c)' = "Running"
           \/ WorkerState(c) = "Running" /\ Terminal(c)'
        /\ Terminal(c) =>
            /\ ThreadsOf(c)' = ThreadsOf(c)
            /\ (c \in DOMAIN workers') <=> (c \in DOMAIN workers)
            /\ c \in DOMAIN workers => workers'[c] = workers[c]
        /\ Cardinality(ThreadsOf(c)') <= 1]_vars

\* a chain Errored, another Exited, both still recorded
C4_Witness ==
    \E c, d \in ChainIds :
        /\ WorkerState(c) = "Errored"
        /\ WorkerState(d) = "Exited"
        /\ c \in DOMAIN workers
        /\ d \in DOMAIN workers
        /\ threads[workers[c]].exitEmitted

(***************************************************************************)
(* C10: with the submitter enabled, the chains are set up one at a time in *)
(* configuration order; a handle is recorded under its chain's id only     *)
(* after the thread was created with that chain's configuration and both   *)
(* listeners were registered; when onModuleInit returns, the registry has  *)
(* one handle for each configured chain id and no other, and no worker     *)
(* event was awaited.                                                      *)
(***************************************************************************)
C10_SetupInOrder ==
    Started =>
        /\ \E n \in 0..Len(chainsConfig) :
            /\ DOMAIN workers = {chainsConfig[k].chainId : k \in 1..n}
            /\ Len(threads) \in {n, n + 1}
            /\ Len(threads) = n + 1 => pc \in {"onError", "onExit", "set"}
        /\ \A c \in DOMAIN workers :
            LET th == threads[workers[c]]
                chain == chainsConfig[PositionOf(c)]
            IN  /\ workers[c] = PositionOf(c)
                /\ th.workerData.chainId = c
                /\ th.workerData.rpc = chain.rpc
                /\ th.workerData.retryInterval =
                    (IF chain.submitter.retryInterval = Undefined
                     THEN Num(2000) ELSE chain.submitter.retryInterval)
                /\ th.workerData.maxFeePerGas = chain.submitter.maxFeePerGas
                /\ th.onError = <<c>>
                /\ th.onExit = <<c>>
        /\ pc = "returned" =>
            /\ DOMAIN workers = ChainIds
            /\ Len(threads) = Len(chainsConfig)
        /\ ~Settled =>
            \A t \in 1..Len(threads) :
                threads[t].state = "Running" /\ FatalCount(t) = 0

\* onModuleInit has returned with every chain recorded and running
C10_Witness ==
    /\ pc = "returned"
    /\ Len(chainsConfig) > 1
    /\ DOMAIN workers = ChainIds
    /\ \A c \in ChainIds : threads[workers[c]].state = "Running"
    /\ BagCardinality(log) = 1

====
